---- MODULE Spec2Model ----
(***************************************************************************)
(* Model of the Hand-Off Block (HOB) list producer of                      *)
(* core/arch/arm/kernel/hob/hob.c: create_hob_list, the append primitive   *)
(* _create_hob and the three typed producers built on it.                  *)
(*                                                                         *)
(* Memory is a byte-addressed partial function: an address that was never  *)
(* stored to is absent from its domain (uninitialised memory).  Every      *)
(* structure field is stored little-endian at base + offsetof(field), so   *)
(* the handoff table itself lives in the same memory as the records.       *)
(***************************************************************************)
EXTENDS Integers, Sequences, FiniteSets, TLC

VARIABLES mem, hob_table, data_out, last, pre, nops, created, rejected

vars == <<mem, hob_table, data_out, last, pre, nops, created, rejected>>

(***************************************************************************)
(* Bounds of the model.                                                    *)
(***************************************************************************)
\* number of API calls explored in one behaviour
MaxOps == 4

(***************************************************************************)
(* Layout and constants of hob.h (UEFI PI specification, cited hob.c:5-7). *)
(***************************************************************************)
NULL == 0

EFI_HOB_TYPE_HANDOFF == 1
EFI_HOB_TYPE_RESOURCE_DESCRIPTOR == 3
EFI_HOB_TYPE_GUID_EXTENSION == 4
EFI_HOB_TYPE_FV == 5
EFI_HOB_TYPE_END_OF_HOB_LIST == 65535
EFI_HOB_HANDOFF_TABLE_VERSION == 9
BOOT_WITH_FULL_CONFIGURATION == 0

\* sizeof(struct ...)
SizeofGenericHeader == 8
SizeofHandoffInfoTable == 56
SizeofResourceDescriptor == 48
SizeofGuidType == 24
SizeofFirmwareVolume == 24
SizeofUuid == 16

\* struct efi_hob_generic_header { uint16_t hob_type; uint16_t hob_length;
\*                                 uint32_t reserved; }
OffHobType == 0
OffHobLength == 2
OffReserved == 4
\* struct efi_hob_handoff_info_table, after its header
OffVersion == 8
OffBootMode == 12
OffEfiMemoryTop == 16
OffEfiMemoryBottom == 24
OffEfiFreeMemoryTop == 32
OffEfiFreeMemoryBottom == 40
OffEfiEndOfHobList == 48
\* struct efi_hob_resource_descriptor, after its header
OffOwner == 8
OffResourceType == 24
OffResourceAttribute == 28
OffPhysicalStart == 32
OffResourceLength == 40
\* struct efi_hob_guid_type, after its header
OffName == 8
\* struct efi_hob_firmware_volume, after its header
OffBaseAddress == 8
OffFvLength == 16

(***************************************************************************)
(* Byte-addressed memory.                                                  *)
(***************************************************************************)
\* value read from bytes that were never written
Undef == -1

\* the size little-endian bytes of val, as a function 0..size-1 -> 0..255
RECURSIVE ByteOf(_, _)
ByteOf(val, i) ==
    IF i = 0 THEN val % 256 ELSE ByteOf(val \div 256, i - 1)

\* store of a size-byte integer field at addr
Store(m, addr, size, val) ==
    [a \in addr .. (addr + size - 1) |-> ByteOf(val, a - addr)] @@ m

\* store of a byte sequence (memcpy source) at addr
StoreBytes(m, addr, bytes) ==
    [a \in addr .. (addr + Len(bytes) - 1) |-> bytes[a - addr + 1]] @@ m

RECURSIVE Decode(_, _, _)
Decode(m, addr, size) ==
    IF size = 0 THEN 0
    ELSE m[addr] + 256 * Decode(m, addr + 1, size - 1)

\* load of a size-byte integer field at addr
Load(m, addr, size) ==
    IF \A a \in addr .. (addr + size - 1) : a \in DOMAIN m
    THEN Decode(m, addr, size)
    ELSE Undef

\* the size bytes at addr, as a sequence (Undef where never written)
LoadBytes(m, addr, size) ==
    [i \in 1 .. size |-> IF (addr + i - 1) \in DOMAIN m THEN m[addr + i - 1] ELSE Undef]

(***************************************************************************)
(* Field accessors: hob->field is a load at hob + offsetof(field).         *)
(***************************************************************************)
hob_type_of(m, hob) == Load(m, hob + OffHobType, 2)
hob_length_of(m, hob) == Load(m, hob + OffHobLength, 2)
reserved_of(m, hob) == Load(m, hob + OffReserved, 4)

efi_memory_top(m, t) == Load(m, t + OffEfiMemoryTop, 8)
efi_memory_bottom(m, t) == Load(m, t + OffEfiMemoryBottom, 8)
efi_free_memory_top(m, t) == Load(m, t + OffEfiFreeMemoryTop, 8)
efi_free_memory_bottom(m, t) == Load(m, t + OffEfiFreeMemoryBottom, 8)
efi_end_of_hob_list(m, t) == Load(m, t + OffEfiEndOfHobList, 8)

\* the three stores that write one generic header
StoreHeader(m, hob, type, length) ==
    Store(Store(Store(m, hob + OffHobType, 2, type),
                hob + OffHobLength, 2, length),
          hob + OffReserved, 4, 0)

(***************************************************************************)
(* Integer arithmetic of the C code.                                       *)
(***************************************************************************)
\* conversion to uint16_t
ToUint16(x) == x % 65536

\* ALIGN_UP that masks without first adding a - 1 (rounds down)
ALIGN_DOWN(x, a) == x - (x % a)

\* ALIGN_UP(x, a) for a power of two a, evaluated in int:
\* (x + (a - 1)) & ~(a - 1) clears the low bits of x + a - 1
ALIGN_UP(x, a) == (x + (a - 1)) - ((x + (a - 1)) % a)

\* x >> 16
Shr16(x) == x \div 65536

\* the space check with the comparison inverted
ExceedsFreeMemInverted(hob_length, top, bottom) ==
    IF top >= bottom
    THEN hob_length < top - bottom
    ELSE Shr16(Shr16(Shr16(hob_length + (bottom - top) - 1))) >= 65536

\* (uint64_t) hob_length > free_mem_size, where free_mem_size is the
\* unsigned 64-bit difference top - bottom: when bottom > top the difference
\* wraps to 2^64 - (bottom - top), and hob_length exceeds it exactly when
\* hob_length + (bottom - top) > 2^64, i.e. when
\* (hob_length + (bottom - top) - 1) >> 48 is at least 2^16.
ExceedsFreeMem(hob_length, top, bottom) ==
    IF top >= bottom
    THEN hob_length > top - bottom
    ELSE Shr16(Shr16(Shr16(hob_length + (bottom - top) - 1))) >= 65536

\* _create_hob with the new header written before the space check
create_hob_write_first(m, table, hob_type, hob_length_in) ==
    LET hob_length == ToUint16(ALIGN_UP(hob_length_in, 8))
    IN  IF table = NULL \/ hob_length = 0
        THEN [mem |-> m, ret |-> NULL]
        ELSE LET new_hob == efi_end_of_hob_list(m, table)
                 m1 == StoreHeader(m, new_hob, hob_type, hob_length)
                 hob_end == new_hob + hob_length
                 m2 == StoreHeader(m1, hob_end, EFI_HOB_TYPE_END_OF_HOB_LIST, SizeofGenericHeader)
                 m3 == Store(m2, table + OffEfiEndOfHobList, 8, hob_end)
                 m4 == Store(m3, table + OffEfiFreeMemoryBottom, 8, hob_end + SizeofGenericHeader)
             IN  IF ExceedsFreeMem(hob_length, efi_free_memory_top(m, table), efi_free_memory_bottom(m, table))
                 THEN [mem |-> m1, ret |-> NULL]
                 ELSE [mem |-> m4, ret |-> new_hob]

\* _create_hob without the update of efi_end_of_hob_list
create_hob_keeps_end_of_list(m, table, hob_type, hob_length_in) ==
    LET hob_length == ToUint16(ALIGN_UP(hob_length_in, 8))
    IN  IF table = NULL \/ hob_length = 0
        THEN [mem |-> m, ret |-> NULL]
        ELSE IF ExceedsFreeMem(hob_length, efi_free_memory_top(m, table), efi_free_memory_bottom(m, table))
        THEN [mem |-> m, ret |-> NULL]
        ELSE LET new_hob == efi_end_of_hob_list(m, table)
                 m1 == StoreHeader(m, new_hob, hob_type, hob_length)
                 hob_end == new_hob + hob_length
                 m2 == StoreHeader(m1, hob_end, EFI_HOB_TYPE_END_OF_HOB_LIST, SizeofGenericHeader)
                 m4 == Store(m2, table + OffEfiFreeMemoryBottom, 8, hob_end + SizeofGenericHeader)
             IN  [mem |-> m4, ret |-> new_hob]

\* _create_hob storing the new boundary in efi_free_memory_top
create_hob_moves_free_top(m, table, hob_type, hob_length_in) ==
    LET hob_length == ToUint16(ALIGN_UP(hob_length_in, 8))
    IN  IF table = NULL \/ hob_length = 0
        THEN [mem |-> m, ret |-> NULL]
        ELSE IF ExceedsFreeMem(hob_length, efi_free_memory_top(m, table), efi_free_memory_bottom(m, table))
        THEN [mem |-> m, ret |-> NULL]
        ELSE LET new_hob == efi_end_of_hob_list(m, table)
                 m1 == StoreHeader(m, new_hob, hob_type, hob_length)
                 hob_end == new_hob + hob_length
                 m2 == StoreHeader(m1, hob_end, EFI_HOB_TYPE_END_OF_HOB_LIST, SizeofGenericHeader)
                 m3 == Store(m2, table + OffEfiEndOfHobList, 8, hob_end)
                 m4 == Store(m3, table + OffEfiFreeMemoryTop, 8, hob_end + SizeofGenericHeader)
             IN  [mem |-> m4, ret |-> new_hob]

\* _create_hob leaving efi_end_of_hob_list at the new record
create_hob_end_at_new_hob(m, table, hob_type, hob_length_in) ==
    LET hob_length == ToUint16(ALIGN_UP(hob_length_in, 8))
    IN  IF table = NULL \/ hob_length = 0
        THEN [mem |-> m, ret |-> NULL]
        ELSE IF ExceedsFreeMem(hob_length, efi_free_memory_top(m, table), efi_free_memory_bottom(m, table))
        THEN [mem |-> m, ret |-> NULL]
        ELSE LET new_hob == efi_end_of_hob_list(m, table)
                 m1 == StoreHeader(m, new_hob, hob_type, hob_length)
                 hob_end == new_hob + hob_length
                 m2 == StoreHeader(m1, hob_end, EFI_HOB_TYPE_END_OF_HOB_LIST, SizeofGenericHeader)
                 m3 == Store(m2, table + OffEfiEndOfHobList, 8, new_hob)
                 m4 == Store(m3, table + OffEfiFreeMemoryBottom, 8, hob_end + SizeofGenericHeader)
             IN  [mem |-> m4, ret |-> new_hob]

\* _create_hob rounding the length up to a multiple of 4
create_hob_align4(m, table, hob_type, hob_length_in) ==
    LET hob_length == ToUint16(ALIGN_UP(hob_length_in, 4))
    IN  IF table = NULL \/ hob_length = 0
        THEN [mem |-> m, ret |-> NULL]
        ELSE IF ExceedsFreeMem(hob_length, efi_free_memory_top(m, table), efi_free_memory_bottom(m, table))
        THEN [mem |-> m, ret |-> NULL]
        ELSE LET new_hob == efi_end_of_hob_list(m, table)
                 m1 == StoreHeader(m, new_hob, hob_type, hob_length)
                 hob_end == new_hob + hob_length
                 m2 == StoreHeader(m1, hob_end, EFI_HOB_TYPE_END_OF_HOB_LIST, SizeofGenericHeader)
                 m3 == Store(m2, table + OffEfiEndOfHobList, 8, hob_end)
                 m4 == Store(m3, table + OffEfiFreeMemoryBottom, 8, hob_end + SizeofGenericHeader)
             IN  [mem |-> m4, ret |-> new_hob]

(***************************************************************************)
(* _create_hob: the append primitive.  Returns the new memory and the      *)
(* pointer returned to the producer (NULL on failure).                     *)
(***************************************************************************)
_create_hob(m, table, hob_type, hob_length_in) ==
    LET hob_length == ToUint16(ALIGN_UP(hob_length_in, 8))
    IN  IF table = NULL \/ hob_length = 0
        THEN [mem |-> m, ret |-> NULL]
        ELSE IF ExceedsFreeMem(hob_length, efi_free_memory_top(m, table), efi_free_memory_bottom(m, table))
        THEN [mem |-> m, ret |-> NULL]
        ELSE LET new_hob == efi_end_of_hob_list(m, table)
                 m1 == StoreHeader(m, new_hob, hob_type, hob_length)
                 hob_end == new_hob + hob_length
                 m2 == StoreHeader(m1, hob_end, EFI_HOB_TYPE_END_OF_HOB_LIST, SizeofGenericHeader)
                 m3 == Store(m2, table + OffEfiEndOfHobList, 8, hob_end)
                 m4 == Store(m3, table + OffEfiFreeMemoryBottom, 8, hob_end + SizeofGenericHeader)
             IN  [mem |-> m4, ret |-> new_hob]

\* create_hob_list whose check leaves out efi_free_memory_length
create_hob_list_three_checks(m, efi_memory_begin, efi_memory_length, efi_free_memory_bottom_in, efi_free_memory_length) ==
    IF efi_memory_begin = 0 \/ efi_free_memory_bottom_in = 0 \/ efi_memory_length = 0
    THEN [mem |-> m, ret |-> NULL]
    ELSE LET table == efi_free_memory_bottom_in
             hob_end == table + SizeofHandoffInfoTable
             m1 == StoreHeader(m, table, EFI_HOB_TYPE_HANDOFF, SizeofHandoffInfoTable)
             m2 == StoreHeader(m1, hob_end, EFI_HOB_TYPE_END_OF_HOB_LIST, SizeofGenericHeader)
             m3 == Store(m2, table + OffVersion, 4, EFI_HOB_HANDOFF_TABLE_VERSION)
             m4 == Store(m3, table + OffBootMode, 4, BOOT_WITH_FULL_CONFIGURATION)
             m5 == Store(m4, table + OffEfiMemoryTop, 8, efi_memory_begin + efi_memory_length)
             m6 == Store(m5, table + OffEfiMemoryBottom, 8, efi_memory_begin)
             m7 == Store(m6, table + OffEfiFreeMemoryTop, 8, efi_memory_begin + efi_free_memory_length)
             m8 == Store(m7, table + OffEfiFreeMemoryBottom, 8, hob_end + SizeofGenericHeader)
             m9 == Store(m8, table + OffEfiEndOfHobList, 8, hob_end)
         IN  [mem |-> m9, ret |-> table]

(***************************************************************************)
(* create_hob_list.  Returns the new memory and the table pointer.         *)
(***************************************************************************)
create_hob_list(m, efi_memory_begin, efi_memory_length, efi_free_memory_bottom_in, efi_free_memory_length) ==
    IF efi_memory_begin = 0 \/ efi_free_memory_bottom_in = 0 \/ efi_memory_length = 0 \/ efi_free_memory_length = 0
    THEN [mem |-> m, ret |-> NULL]
    ELSE LET table == efi_free_memory_bottom_in
             hob_end == table + SizeofHandoffInfoTable
             m1 == StoreHeader(m, table, EFI_HOB_TYPE_HANDOFF, SizeofHandoffInfoTable)
             m2 == StoreHeader(m1, hob_end, EFI_HOB_TYPE_END_OF_HOB_LIST, SizeofGenericHeader)
             m3 == Store(m2, table + OffVersion, 4, EFI_HOB_HANDOFF_TABLE_VERSION)
             m4 == Store(m3, table + OffBootMode, 4, BOOT_WITH_FULL_CONFIGURATION)
             m5 == Store(m4, table + OffEfiMemoryTop, 8, efi_memory_begin + efi_memory_length)
             m6 == Store(m5, table + OffEfiMemoryBottom, 8, efi_memory_begin)
             m7 == Store(m6, table + OffEfiFreeMemoryTop, 8, efi_memory_begin + efi_free_memory_length)
             m8 == Store(m7, table + OffEfiFreeMemoryBottom, 8, hob_end + SizeofGenericHeader)
             m9 == Store(m8, table + OffEfiEndOfHobList, 8, hob_end)
         IN  [mem |-> m9, ret |-> table]

(***************************************************************************)
(* The typed producers.  Each returns the new memory, the TEE_Result, the  *)
(* pointer _create_hob returned (NULL when it failed or was not called)    *)
(* and, for create_guid_hob, the caller's output pointer after the call.   *)
(***************************************************************************)
\* create_resource_descriptor_hob without the memset of owner
create_resource_descriptor_hob_no_owner_fill(m, table, resource_type, resource_attribute, phy_addr_start, resource_length) ==
    LET r == _create_hob(m, table, EFI_HOB_TYPE_RESOURCE_DESCRIPTOR, SizeofResourceDescriptor)
        rd_hop == r.ret
    IN  IF rd_hop = NULL
        THEN [mem |-> r.mem, ret |-> "TEE_ERROR_OUT_OF_MEMORY", hob |-> NULL]
        ELSE LET m1 == Store(r.mem, rd_hop + OffResourceType, 4, resource_type)
                 m2 == Store(m1, rd_hop + OffResourceAttribute, 4, resource_attribute)
                 m3 == Store(m2, rd_hop + OffPhysicalStart, 8, phy_addr_start)
                 m4 == Store(m3, rd_hop + OffResourceLength, 8, resource_length)
             IN  [mem |-> m4, ret |-> "TEE_SUCCESS", hob |-> rd_hop]

create_resource_descriptor_hob(m, table, resource_type, resource_attribute, phy_addr_start, resource_length) ==
    LET r == _create_hob(m, table, EFI_HOB_TYPE_RESOURCE_DESCRIPTOR, SizeofResourceDescriptor)
        rd_hop == r.ret
    IN  IF rd_hop = NULL
        THEN [mem |-> r.mem, ret |-> "TEE_ERROR_OUT_OF_MEMORY", hob |-> NULL]
        ELSE LET m1 == Store(r.mem, rd_hop + OffResourceType, 4, resource_type)
                 m2 == Store(m1, rd_hop + OffResourceAttribute, 4, resource_attribute)
                 m3 == Store(m2, rd_hop + OffPhysicalStart, 8, phy_addr_start)
                 m4 == Store(m3, rd_hop + OffResourceLength, 8, resource_length)
                 m5 == Store(m4, rd_hop + OffOwner, SizeofUuid, 0)
             IN  [mem |-> m5, ret |-> "TEE_SUCCESS", hob |-> rd_hop]

\* create_guid_hob without the hob_length < data_length test
create_guid_hob_no_wrap_test(m, table, guid_null, guid_bytes, data_length, data, out) ==
    LET hob_length == ToUint16(data_length + SizeofGuidType)
    IN  IF guid_null \/ ~data
        THEN [mem |-> m, ret |-> "TEE_ERROR_BAD_PARAMETERS", hob |-> NULL, out |-> out]
        ELSE LET r == _create_hob(m, table, EFI_HOB_TYPE_GUID_EXTENSION, hob_length)
                 guid_hob == r.ret
             IN  IF guid_hob = NULL
                 THEN [mem |-> r.mem, ret |-> "TEE_ERROR_OUT_OF_MEMORY", hob |-> NULL, out |-> NULL]
                 ELSE [mem |-> StoreBytes(r.mem, guid_hob + OffName, guid_bytes),
                       ret |-> "TEE_SUCCESS", hob |-> guid_hob,
                       out |-> guid_hob + SizeofGuidType]

\* create_guid_hob returning the address after the generic header only
create_guid_hob_data_after_header(m, table, guid_null, guid_bytes, data_length, data, out) ==
    LET hob_length == ToUint16(data_length + SizeofGuidType)
    IN  IF guid_null \/ ~data \/ hob_length < data_length
        THEN [mem |-> m, ret |-> "TEE_ERROR_BAD_PARAMETERS", hob |-> NULL, out |-> out]
        ELSE LET r == _create_hob(m, table, EFI_HOB_TYPE_GUID_EXTENSION, hob_length)
                 guid_hob == r.ret
             IN  IF guid_hob = NULL
                 THEN [mem |-> r.mem, ret |-> "TEE_ERROR_OUT_OF_MEMORY", hob |-> NULL, out |-> NULL]
                 ELSE [mem |-> StoreBytes(r.mem, guid_hob + OffName, guid_bytes),
                       ret |-> "TEE_SUCCESS", hob |-> guid_hob,
                       out |-> guid_hob + SizeofGenericHeader]

\* create_guid_hob asking _create_hob for data_length bytes only
create_guid_hob_no_header_size(m, table, guid_null, guid_bytes, data_length, data, out) ==
    LET hob_length == ToUint16(data_length)
    IN  IF guid_null \/ ~data \/ hob_length < data_length
        THEN [mem |-> m, ret |-> "TEE_ERROR_BAD_PARAMETERS", hob |-> NULL, out |-> out]
        ELSE LET r == _create_hob(m, table, EFI_HOB_TYPE_GUID_EXTENSION, hob_length)
                 guid_hob == r.ret
             IN  IF guid_hob = NULL
                 THEN [mem |-> r.mem, ret |-> "TEE_ERROR_OUT_OF_MEMORY", hob |-> NULL, out |-> NULL]
                 ELSE [mem |-> StoreBytes(r.mem, guid_hob + OffName, guid_bytes),
                       ret |-> "TEE_SUCCESS", hob |-> guid_hob,
                       out |-> guid_hob + SizeofGuidType]

\* create_guid_hob refusing a null table before it looks at its arguments
create_guid_hob_table_check_first(m, table, guid_null, guid_bytes, data_length, data, out) ==
    LET hob_length == ToUint16(data_length + SizeofGuidType)
    IN  IF table = NULL
        THEN [mem |-> m, ret |-> "TEE_ERROR_OUT_OF_MEMORY", hob |-> NULL, out |-> out]
        ELSE IF guid_null \/ ~data \/ hob_length < data_length
        THEN [mem |-> m, ret |-> "TEE_ERROR_BAD_PARAMETERS", hob |-> NULL, out |-> out]
        ELSE LET r == _create_hob(m, table, EFI_HOB_TYPE_GUID_EXTENSION, hob_length)
                 guid_hob == r.ret
             IN  IF guid_hob = NULL
                 THEN [mem |-> r.mem, ret |-> "TEE_ERROR_OUT_OF_MEMORY", hob |-> NULL, out |-> NULL]
                 ELSE [mem |-> StoreBytes(r.mem, guid_hob + OffName, guid_bytes),
                       ret |-> "TEE_SUCCESS", hob |-> guid_hob,
                       out |-> guid_hob + SizeofGuidType]

\* guid_null: the guid pointer is NULL; guid_bytes: the 16 bytes it refers to
\* otherwise.  data: FALSE for a null void **, TRUE for the address of the
\* caller's pointer, whose value before the call is out.
create_guid_hob(m, table, guid_null, guid_bytes, data_length, data, out) ==
    LET hob_length == ToUint16(data_length + SizeofGuidType)
    IN  IF guid_null \/ ~data \/ hob_length < data_length
        THEN [mem |-> m, ret |-> "TEE_ERROR_BAD_PARAMETERS", hob |-> NULL, out |-> out]
        ELSE LET r == _create_hob(m, table, EFI_HOB_TYPE_GUID_EXTENSION, hob_length)
                 guid_hob == r.ret
             IN  IF guid_hob = NULL
                 THEN [mem |-> r.mem, ret |-> "TEE_ERROR_OUT_OF_MEMORY", hob |-> NULL, out |-> NULL]
                 ELSE [mem |-> StoreBytes(r.mem, guid_hob + OffName, guid_bytes),
                       ret |-> "TEE_SUCCESS", hob |-> guid_hob,
                       out |-> guid_hob + SizeofGuidType]

create_fv_hob(m, table, base_addr, size) ==
    LET r == _create_hob(m, table, EFI_HOB_TYPE_FV, SizeofFirmwareVolume)
        fv_hob == r.ret
    IN  IF fv_hob = NULL
        THEN [mem |-> r.mem, ret |-> "TEE_ERROR_OUT_OF_MEMORY", hob |-> NULL]
        ELSE LET m1 == Store(r.mem, fv_hob + OffBaseAddress, 8, base_addr)
                 m2 == Store(m1, fv_hob + OffFvLength, 8, size)
             IN  [mem |-> m2, ret |-> "TEE_SUCCESS", hob |-> fv_hob]

(***************************************************************************)
(* Inputs the callers are drawn from.                                      *)
(***************************************************************************)
MemoryBegins == {0, 64}
MemoryLengths == {0, 4096}
FreeBottoms == {0, 64, 68, 1024}
FreeLengths == {0, 32, 160, 4096, 70000}

\* data_length of create_guid_hob: small payloads, the largest one whose
\* record length fits (65504 + 24 = 65528), lengths whose record length
\* rounds up to 2^16 (65505, 65511), and lengths whose sum with the header
\* size does not fit in 16 bits (65512, 65535)
DataLengths == {0, 10, 65504, 65505, 65511, 65512, 65535}

\* the TEE_UUID values callers pass
GuidA == [i \in 1 .. 16 |-> 160 + i]
GuidB == [i \in 1 .. 16 |-> 2 * i]
Guids == {GuidA, GuidB}

\* argument tuples of create_guid_hob: every data_length with valid
\* pointers, every tag, and each combination of null pointers
GuidCalls ==
    [guid_null : {FALSE}, guid : {GuidA}, data_length : DataLengths, data : {TRUE}]
    \cup [guid_null : {FALSE}, guid : Guids, data_length : {10}, data : {TRUE}]
    \cup [guid_null : BOOLEAN, guid : {GuidA}, data_length : {10}, data : BOOLEAN]

ResourceTypes == {5}
ResourceAttributes == {7}
PhysAddrs == {4096}
ResourceLengths == {8192}

Producers == {"create_resource_descriptor_hob", "create_guid_hob", "create_fv_hob"}

NoCall == [op |-> "none", args |-> <<>>, ret |-> "none", hob |-> NULL, n |-> 0]

(***************************************************************************)
(* State machine: the boot-stage caller, a single thread, calls            *)
(* create_hob_list until it has a table and then the producers.            *)
(*   mem       memory                                                      *)
(*   hob_table the caller's table pointer (NULL before create_hob_list     *)
(*             succeeded)                                                  *)
(*   data_out  the caller's void *, whose address it passes as data        *)
(*   last      the last call: name, arguments, result, the pointer         *)
(*             _create_hob returned, the length passed to _create_hob      *)
(*   pre       memory and pointers before the last call                    *)
(*   nops      number of calls made                                        *)
(*   created   the records the successful appends created, in order       *)
(*   rejected  the smallest rounded length refused for lack of space       *)
(***************************************************************************)
Init ==
    /\ mem = << >>
    /\ hob_table = NULL
    /\ data_out = NULL
    /\ last = NoCall
    /\ pre = [mem |-> << >>, hob_table |-> NULL, data_out |-> NULL]
    /\ nops = 0
    /\ created = << >>
    /\ rejected = 0

Snapshot == [mem |-> mem, hob_table |-> hob_table, data_out |-> data_out]

\* the record a successful append created: address, type, stored length
Created(m, hob) == [addr |-> hob, hob_type |-> hob_type_of(m, hob), hob_length |-> hob_length_of(m, hob)]

\* n rounded up to a multiple of 8 as an unbounded integer
RoundedUp(n) == ((n + 7) \div 8) * 8

\* rejected after a producer call that passed length n to _create_hob on
\* table and returned ret: the smallest rounded length _create_hob has
\* refused for lack of space so far (0: none).  _create_hob refuses for
\* lack of space when it returns NULL although the table is not null and
\* the rounded length is not zero in 16 bits.
NoteRejected(rej, table, ret, n) ==
    IF ret = "TEE_ERROR_OUT_OF_MEMORY" /\ table # NULL /\ RoundedUp(n) < 65536
       /\ (rej = 0 \/ RoundedUp(n) < rej)
    THEN RoundedUp(n)
    ELSE rej

CreateHobListCall ==
    /\ hob_table = NULL
    /\ \E b \in MemoryBegins, l \in MemoryLengths, fb \in FreeBottoms, fl \in FreeLengths :
          LET r == create_hob_list(mem, b, l, fb, fl)
          IN  /\ mem' = r.mem
              /\ hob_table' = r.ret
              /\ last' = [op |-> "create_hob_list", args |-> <<b, l, fb, fl>>,
                          ret |-> IF r.ret = NULL THEN "NULL" ELSE "table", hob |-> r.ret, n |-> 0]
    /\ pre' = Snapshot
    /\ UNCHANGED <<data_out, created, rejected>>

CreateResourceDescriptorHobCall ==
    /\ \E rt \in ResourceTypes, ra \in ResourceAttributes, ps \in PhysAddrs, rl \in ResourceLengths :
          LET r == create_resource_descriptor_hob(mem, hob_table, rt, ra, ps, rl)
          IN  /\ mem' = r.mem
              /\ last' = [op |-> "create_resource_descriptor_hob", args |-> <<rt, ra, ps, rl>>,
                          ret |-> r.ret, hob |-> r.hob, n |-> SizeofResourceDescriptor]
              /\ created' = IF r.hob = NULL THEN created ELSE Append(created, Created(r.mem, r.hob))
              /\ rejected' = NoteRejected(rejected, hob_table, r.ret, SizeofResourceDescriptor)
    /\ pre' = Snapshot
    /\ UNCHANGED <<hob_table, data_out>>

CreateGuidHobCall ==
    /\ \E c \in GuidCalls :
          LET r == create_guid_hob(mem, hob_table, c.guid_null, c.guid, c.data_length, c.data, data_out)
          IN  /\ mem' = r.mem
              /\ data_out' = r.out
              /\ last' = [op |-> "create_guid_hob",
                          args |-> <<c.guid_null, c.guid, c.data_length, c.data>>,
                          ret |-> r.ret, hob |-> r.hob, n |-> ToUint16(c.data_length + SizeofGuidType)]
              /\ created' = IF r.hob = NULL THEN created ELSE Append(created, Created(r.mem, r.hob))
              /\ rejected' = NoteRejected(rejected, hob_table, r.ret, ToUint16(c.data_length + SizeofGuidType))
    /\ pre' = Snapshot
    /\ UNCHANGED hob_table

CreateFvHobCall ==
    /\ \E ba \in PhysAddrs, sz \in ResourceLengths :
          LET r == create_fv_hob(mem, hob_table, ba, sz)
          IN  /\ mem' = r.mem
              /\ last' = [op |-> "create_fv_hob", args |-> <<ba, sz>>,
                          ret |-> r.ret, hob |-> r.hob, n |-> SizeofFirmwareVolume]
              /\ created' = IF r.hob = NULL THEN created ELSE Append(created, Created(r.mem, r.hob))
              /\ rejected' = NoteRejected(rejected, hob_table, r.ret, SizeofFirmwareVolume)
    /\ pre' = Snapshot
    /\ UNCHANGED <<hob_table, data_out>>

CreateHobList ==
    /\ nops < MaxOps
    /\ CreateHobListCall
    /\ nops' = nops + 1

CreateResourceDescriptorHob ==
    /\ nops < MaxOps
    /\ CreateResourceDescriptorHobCall
    /\ nops' = nops + 1

CreateGuidHob ==
    /\ nops < MaxOps
    /\ CreateGuidHobCall
    /\ nops' = nops + 1

CreateFvHob ==
    /\ nops < MaxOps
    /\ CreateFvHobCall
    /\ nops' = nops + 1

Next ==
    \/ CreateHobList
    \/ CreateResourceDescriptorHob
    \/ CreateGuidHob
    \/ CreateFvHob

Spec == Init /\ [][Next]_vars

(***************************************************************************)
(* An unbounded stream of append requests on a small table: the caller     *)
(* holds the table of create_hob_list(base, length, base, free length)     *)
(* and calls the producers for ever (no bound on the number of calls).     *)
(***************************************************************************)
StreamFreeLengths == {136, 160}

InitStream ==
    \E b \in MemoryBegins \ {0}, l \in MemoryLengths \ {0}, fl \in StreamFreeLengths :
        LET r == create_hob_list(<< >>, b, l, b, fl)
        IN  /\ mem = r.mem
            /\ hob_table = r.ret
            /\ data_out = NULL
            /\ last = [op |-> "create_hob_list", args |-> <<b, l, b, fl>>,
                       ret |-> IF r.ret = NULL THEN "NULL" ELSE "table", hob |-> r.ret, n |-> 0]
            /\ pre = [mem |-> << >>, hob_table |-> NULL, data_out |-> NULL]
            /\ nops = 1
            /\ created = << >>
            /\ rejected = 0

StreamResourceDescriptorHob == CreateResourceDescriptorHobCall /\ UNCHANGED nops

StreamGuidHob == CreateGuidHobCall /\ UNCHANGED nops

StreamFvHob == CreateFvHobCall /\ UNCHANGED nops

NextStream ==
    \/ StreamResourceDescriptorHob
    \/ StreamGuidHob
    \/ StreamFvHob

SpecStream == InitStream /\ [][NextStream]_vars

(***************************************************************************)
(* Vocabulary of the properties.                                           *)
(***************************************************************************)
\* the last call was a producer call
Appended == last.op \in Producers
AppendOk == Appended /\ last.ret = "TEE_SUCCESS"
AppendFailed == Appended /\ last.ret # "TEE_SUCCESS"

\* the table fields now and before the last call
free_top == efi_free_memory_top(mem, hob_table)
free_bottom == efi_free_memory_bottom(mem, hob_table)
end_of_list == efi_end_of_hob_list(mem, hob_table)
memory_top == efi_memory_top(mem, hob_table)
memory_bottom == efi_memory_bottom(mem, hob_table)
pre_free_top == efi_free_memory_top(pre.mem, pre.hob_table)
pre_free_bottom == efi_free_memory_bottom(pre.mem, pre.hob_table)
pre_end_of_list == efi_end_of_hob_list(pre.mem, pre.hob_table)

\* The consumer's walk (address += header.length from the end of the table
\* header): the addresses of the headers visited up to and including the
\* first one carrying the end-of-list tag; -1 closes the walk when a header
\* was never written or the walk does not end within fuel steps.
RECURSIVE ListWalk(_, _, _)
ListWalk(m, addr, fuel) ==
    IF hob_type_of(m, addr) = Undef \/ hob_length_of(m, addr) = Undef
    THEN << -1 >>
    ELSE IF hob_type_of(m, addr) = EFI_HOB_TYPE_END_OF_HOB_LIST
    THEN << addr >>
    ELSE IF fuel = 0
    THEN << -1 >>
    ELSE << addr >> \o ListWalk(m, addr + hob_length_of(m, addr), fuel - 1)

Walk == ListWalk(mem, hob_table + SizeofHandoffInfoTable, MaxOps)

(***************************************************************************)
(* C1.  Failure atomicity: whenever a producer call (and so _create_hob    *)
(* under it) fails, for a null table, a length that is zero after          *)
(* rounding, a rounded length greater than free_top - free_bottom or bad   *)
(* parameters, every byte of memory, and with it the table fields          *)
(* free_bottom, end_of_list, free_top, memory_top, memory_bottom and all   *)
(* prior records and the terminator, is as it was before the call.         *)
(***************************************************************************)
C1_FailureAtomicity ==
    AppendFailed =>
        /\ mem = pre.mem
        /\ hob_table = pre.hob_table
        /\ hob_table # NULL =>
              /\ free_bottom = pre_free_bottom
              /\ end_of_list = pre_end_of_list
              /\ free_top = pre_free_top
              /\ memory_top = efi_memory_top(pre.mem, pre.hob_table)
              /\ memory_bottom = efi_memory_bottom(pre.mem, pre.hob_table)

\* a producer ran out of space on a table that already holds a record
C1_Witness ==
    /\ AppendFailed
    /\ last.ret = "TEE_ERROR_OUT_OF_MEMORY"
    /\ hob_table # NULL
    /\ Len(created) >= 1
    /\ free_top >= free_bottom
    /\ RoundedUp(last.n) > free_top - free_bottom

(***************************************************************************)
(* C2.  Every successful append through _create_hob with requested length  *)
(* n stores in the new header a length that is a multiple of 8 and >= n    *)
(* (so no request of 65529..65535, whose rounding does not fit 16 bits,    *)
(* succeeds), advances free_bottom by exactly the stored length, places    *)
(* the record at the old end_of_list and writes a terminator header        *)
(* (end-of-list tag, length 8) at record address + stored length.          *)
(***************************************************************************)
C2_SuccessfulAppend ==
    AppendOk =>
        LET stored == hob_length_of(mem, last.hob)
        IN  /\ stored % 8 = 0
            /\ stored >= last.n
            /\ free_bottom = pre_free_bottom + stored
            /\ last.hob = pre_end_of_list
            /\ hob_type_of(mem, last.hob + stored) = EFI_HOB_TYPE_END_OF_HOB_LIST
            /\ hob_length_of(mem, last.hob + stored) = SizeofGenericHeader
            /\ end_of_list = last.hob + stored

\* a successful append whose requested length is not a multiple of 8
C2_Witness ==
    /\ AppendOk
    /\ last.n % 8 # 0
    /\ hob_length_of(mem, last.hob) > last.n

(***************************************************************************)
(* C3.  After a successful create_hob_list (any four non-zero inputs) and  *)
(* any sequence of appends,                                                *)
(* memory_bottom <= free_bottom <= free_top <= memory_top.                 *)
(***************************************************************************)
C3_RegionOrder ==
    hob_table # NULL =>
        /\ memory_bottom <= free_bottom
        /\ free_bottom <= free_top
        /\ free_top <= memory_top

(***************************************************************************)
(* C4.  A successful create_hob_list(region_base, region_length,           *)
(* free_base, free_length) returns a table at free_base with               *)
(* memory_top = region_base + region_length, memory_bottom = region_base,  *)
(* free_top = free_base + free_length,                                     *)
(* end_of_list = free_base + sizeof(table) and                             *)
(* free_bottom = end_of_list + sizeof(terminator), also when free_base     *)
(* differs from region_base.                                               *)
(***************************************************************************)
C4_TableFields ==
    (last.op = "create_hob_list" /\ last.hob # NULL) =>
        LET region_base == last.args[1]
            region_length == last.args[2]
            free_base == last.args[3]
            free_length == last.args[4]
        IN  /\ hob_table = free_base
            /\ memory_top = region_base + region_length
            /\ memory_bottom = region_base
            /\ free_top = free_base + free_length
            /\ end_of_list = free_base + SizeofHandoffInfoTable
            /\ free_bottom = end_of_list + SizeofGenericHeader

(***************************************************************************)
(* C5.  The admission check protects the free region: on any table of a    *)
(* successful create_hob_list, also one whose free_bottom starts above     *)
(* free_top, an append succeeds only if its rounded length fits in         *)
(* free_top - free_bottom, so after every successful append                *)
(* free_bottom <= free_top and neither the new header nor the new          *)
(* terminator header lies at or beyond free_top.                           *)
(***************************************************************************)
C5_AdmissionProtects ==
    AppendOk =>
        /\ pre_free_bottom <= pre_free_top
        /\ RoundedUp(last.n) <= pre_free_top - pre_free_bottom
        /\ free_bottom <= free_top
        /\ last.hob + SizeofGenericHeader <= free_top
        /\ end_of_list + SizeofGenericHeader <= free_top

(***************************************************************************)
(* C6.  create_hob_list returns NULL whenever at least one of its four     *)
(* inputs is zero, and then writes nothing to memory; with four non-zero   *)
(* inputs it always returns a table.                                       *)
(***************************************************************************)
C6_CreateHobListCheck ==
    last.op = "create_hob_list" =>
        IF \E i \in 1 .. 4 : last.args[i] = 0
        THEN last.hob = NULL /\ hob_table = NULL /\ mem = pre.mem
        ELSE last.hob # NULL /\ hob_table = last.hob

\* create_hob_list was called with the free length as its only zero input
C6_Witness ==
    /\ last.op = "create_hob_list"
    /\ last.args[4] = 0
    /\ \A i \in 1 .. 3 : last.args[i] # 0
    /\ last.hob = NULL

(***************************************************************************)
(* C7.  Terminator invariant: right after initialization                   *)
(* free_bottom = table + sizeof(table header) + sizeof(terminator); in     *)
(* every state reached by successful or failed appends                     *)
(* end_of_list = free_bottom - sizeof(terminator), the header at           *)
(* end_of_list carries the end-of-list tag with length 8, and the walk     *)
(* from the end of the table header meets no end-of-list tag before        *)
(* end_of_list (exactly one terminator, last in the used region).          *)
(***************************************************************************)
C7_TerminatorInvariant ==
    hob_table # NULL =>
        /\ (last.op = "create_hob_list" =>
              free_bottom = hob_table + SizeofHandoffInfoTable + SizeofGenericHeader)
        /\ end_of_list = free_bottom - SizeofGenericHeader
        /\ hob_type_of(mem, end_of_list) = EFI_HOB_TYPE_END_OF_HOB_LIST
        /\ hob_length_of(mem, end_of_list) = SizeofGenericHeader
        /\ Walk[Len(Walk)] = end_of_list
        /\ \A k \in 1 .. (Len(Walk) - 1) :
              hob_type_of(mem, Walk[k]) # EFI_HOB_TYPE_END_OF_HOB_LIST

\* two records were appended and then an append failed
C7_Witness ==
    /\ hob_table # NULL
    /\ Len(created) >= 2
    /\ AppendFailed
    /\ Len(Walk) = 3

(***************************************************************************)
(* C8.  List walk: after initialization and appends of which N succeeded,  *)
(* the walk from table + sizeof(table header) reaches the end-of-list tag  *)
(* after exactly N steps, the k-th visited header is the record of the     *)
(* k-th successful append, and no visited header (terminator included)     *)
(* extends past free_top.                                                  *)
(***************************************************************************)
C8_ListWalk ==
    hob_table # NULL =>
        /\ Len(Walk) = Len(created) + 1
        /\ \A k \in 1 .. Len(created) :
              /\ Walk[k] = created[k].addr
              /\ hob_type_of(mem, Walk[k]) = created[k].hob_type
              /\ hob_length_of(mem, Walk[k]) = created[k].hob_length
        /\ hob_type_of(mem, Walk[Len(Walk)]) = EFI_HOB_TYPE_END_OF_HOB_LIST
        /\ \A k \in 1 .. Len(Walk) : Walk[k] + SizeofGenericHeader <= free_top

(***************************************************************************)
(* C9.  create_guid_hob with non-null guid and data and a data_length for  *)
(* which data_length + sizeof(GUID record header) does not fit in 16 bits  *)
(* returns BadParameters and allocates nothing (memory, table and list     *)
(* unchanged), for every such data_length: both for the calls made and,    *)
(* in every reachable state, for each data_length of 65512..65535.         *)
(***************************************************************************)
C9_GuidLengthOverflow ==
    /\ (/\ last.op = "create_guid_hob"
        /\ ~last.args[1]
        /\ last.args[4]
        /\ last.args[3] + SizeofGuidType >= 65536)
       => /\ last.ret = "TEE_ERROR_BAD_PARAMETERS"
          /\ last.hob = NULL
          /\ mem = pre.mem
    /\ \A d \in (65536 - SizeofGuidType) .. 65535 :
          LET r == create_guid_hob(mem, hob_table, FALSE, GuidA, d, TRUE, data_out)
          IN  r.ret = "TEE_ERROR_BAD_PARAMETERS" /\ r.hob = NULL /\ r.mem = mem

\* an overflowing data_length was passed, with valid pointers, on a table
\* where the wrapped length (23, rounded to 24) would have fitted
C9_Witness ==
    /\ last.op = "create_guid_hob"
    /\ ~last.args[1]
    /\ last.args[4]
    /\ last.args[3] = 65535
    /\ hob_table # NULL
    /\ free_top - free_bottom >= 24

(***************************************************************************)
(* C10.  Whenever create_guid_hob fails with a non-null output pointer     *)
(* argument, whatever the cause (out of memory, null tag, length           *)
(* overflow), the caller's output data pointer is null on return.          *)
(***************************************************************************)
C10_GuidFailureClearsData ==
    (last.op = "create_guid_hob" /\ last.args[4] /\ last.ret # "TEE_SUCCESS") =>
        data_out = NULL

(***************************************************************************)
(* C11.  On every successful create_guid_hob the record appended at the    *)
(* old end_of_list carries the GUID-extension type tag, its stored 16-byte *)
(* name equals the input tag byte for byte, and the data pointer returned  *)
(* is record address + sizeof(generic header + 16-byte tag).               *)
(***************************************************************************)
C11_GuidRecord ==
    (last.op = "create_guid_hob" /\ last.ret = "TEE_SUCCESS") =>
        /\ last.hob = pre_end_of_list
        /\ hob_type_of(mem, last.hob) = EFI_HOB_TYPE_GUID_EXTENSION
        /\ LoadBytes(mem, last.hob + OffName, SizeofUuid) = last.args[2]
        /\ data_out = last.hob + SizeofGenericHeader + SizeofUuid

\* a GUID record with the second tag was appended after another record
C11_Witness ==
    /\ last.op = "create_guid_hob"
    /\ last.ret = "TEE_SUCCESS"
    /\ last.args[2] = GuidB
    /\ Len(created) = 2
    /\ data_out # NULL

(***************************************************************************)
(* C12.  create_resource_descriptor_hob and create_fv_hob return           *)
(* OutOfMemory exactly when the append primitive fails (null table, or     *)
(* fixed record length greater than free_top - free_bottom) and success    *)
(* otherwise, never another result.  On success the record at the old      *)
(* end_of_list carries the producer's type tag, its fixed length and the   *)
(* caller's field values (resource type, attributes, start, length and a   *)
(* 16-byte zero owner; or base address and length).                        *)
(* free_top - free_bottom is the unsigned difference the code computes:    *)
(* when free_bottom is above free_top it is 2^64 - (free_bottom -          *)
(* free_top), which no 16-bit length exceeds (the case of C5).             *)
(***************************************************************************)
PrimitiveRejects(length) ==
    \/ pre.hob_table = NULL
    \/ (pre_free_top >= pre_free_bottom /\ length > pre_free_top - pre_free_bottom)

C12_FixedProducers ==
    /\ last.op = "create_resource_descriptor_hob" =>
          /\ last.ret \in {"TEE_ERROR_OUT_OF_MEMORY", "TEE_SUCCESS"}
          /\ last.ret = "TEE_ERROR_OUT_OF_MEMORY" <=> PrimitiveRejects(SizeofResourceDescriptor)
          /\ last.ret = "TEE_SUCCESS" =>
                /\ last.hob = pre_end_of_list
                /\ hob_type_of(mem, last.hob) = EFI_HOB_TYPE_RESOURCE_DESCRIPTOR
                /\ hob_length_of(mem, last.hob) = SizeofResourceDescriptor
                /\ Load(mem, last.hob + OffResourceType, 4) = last.args[1]
                /\ Load(mem, last.hob + OffResourceAttribute, 4) = last.args[2]
                /\ Load(mem, last.hob + OffPhysicalStart, 8) = last.args[3]
                /\ Load(mem, last.hob + OffResourceLength, 8) = last.args[4]
                /\ LoadBytes(mem, last.hob + OffOwner, SizeofUuid) = [i \in 1 .. SizeofUuid |-> 0]
    /\ last.op = "create_fv_hob" =>
          /\ last.ret \in {"TEE_ERROR_OUT_OF_MEMORY", "TEE_SUCCESS"}
          /\ last.ret = "TEE_ERROR_OUT_OF_MEMORY" <=> PrimitiveRejects(SizeofFirmwareVolume)
          /\ last.ret = "TEE_SUCCESS" =>
                /\ last.hob = pre_end_of_list
                /\ hob_type_of(mem, last.hob) = EFI_HOB_TYPE_FV
                /\ hob_length_of(mem, last.hob) = SizeofFirmwareVolume
                /\ Load(mem, last.hob + OffBaseAddress, 8) = last.args[1]
                /\ Load(mem, last.hob + OffFvLength, 8) = last.args[2]

\* a resource descriptor was appended, then a firmware volume was refused
\* for lack of space
C12_Witness ==
    /\ last.op = "create_fv_hob"
    /\ last.ret = "TEE_ERROR_OUT_OF_MEMORY"
    /\ hob_table # NULL
    /\ Len(created) >= 1
    /\ created[1].hob_type = EFI_HOB_TYPE_RESOURCE_DESCRIPTOR

(***************************************************************************)
(* C13.  Frame of appends on the table: no append, successful or failed,   *)
(* changes memory_top, memory_bottom, free_top, version, boot_mode or the  *)
(* table's own header; free_bottom and end_of_list never decrease, and     *)
(* they increase strictly on every successful append.                      *)
(***************************************************************************)
C13_TableFrame ==
    (Appended /\ hob_table # NULL) =>
        /\ hob_table = pre.hob_table
        /\ memory_top = efi_memory_top(pre.mem, hob_table)
        /\ memory_bottom = efi_memory_bottom(pre.mem, hob_table)
        /\ free_top = pre_free_top
        /\ Load(mem, hob_table + OffVersion, 4) = Load(pre.mem, hob_table + OffVersion, 4)
        /\ Load(mem, hob_table + OffBootMode, 4) = Load(pre.mem, hob_table + OffBootMode, 4)
        /\ LoadBytes(mem, hob_table, SizeofGenericHeader) = LoadBytes(pre.mem, hob_table, SizeofGenericHeader)
        /\ hob_type_of(mem, hob_table) = EFI_HOB_TYPE_HANDOFF
        /\ free_bottom >= pre_free_bottom
        /\ end_of_list >= pre_end_of_list
        /\ AppendOk => (free_bottom > pre_free_bottom /\ end_of_list > pre_end_of_list)

\* a successful append on a table that already held a record
C13_Witness ==
    /\ AppendOk
    /\ Len(created) = 2
    /\ free_bottom > pre_free_bottom
    /\ free_top = pre_free_top

(***************************************************************************)
(* C14.  Append-only records.                                              *)
(***************************************************************************)
\* the addresses of the bytes written before the last call whose value the
\* last call changed
Overwritten == {a \in DOMAIN pre.mem : a \notin DOMAIN mem \/ mem[a] # pre.mem[a]}

\* the records created before the last call
EarlierRecords == IF AppendOk THEN SubSeq(created, 1, Len(created) - 1) ELSE created

\* the last call left every byte of record rec, written or not, as it was
RecordUntouched(rec) ==
    LET bytes == rec.addr .. (rec.addr + rec.hob_length - 1)
    IN  /\ Overwritten \cap bytes = {}
        /\ (DOMAIN mem) \cap bytes = (DOMAIN pre.mem) \cap bytes

OldTerminator == pre_end_of_list .. (pre_end_of_list + SizeofGenericHeader - 1)

\* the table's efi_free_memory_bottom and efi_end_of_hob_list fields
TableCursorFields ==
    (hob_table + OffEfiFreeMemoryBottom) .. (hob_table + OffEfiFreeMemoryBottom + 7)
    \cup (hob_table + OffEfiEndOfHobList) .. (hob_table + OffEfiEndOfHobList + 7)

\* C14 as stated: once a producer call created a record, every later call
\* of any producer, successful or failed, leaves its header and payload
\* bytes unchanged, and the only previously written bytes a successful
\* append overwrites are those of the old terminator header.
C14_OnlyTerminatorOverwritten ==
    (Appended /\ hob_table # NULL) =>
        /\ \A k \in 1 .. Len(EarlierRecords) : RecordUntouched(EarlierRecords[k])
        /\ AppendOk => Overwritten \subseteq OldTerminator

\* C14 as amended: once a producer call created a record, every later call
\* of any producer, successful or failed, leaves its header and payload
\* bytes unchanged, and the only previously written bytes a successful
\* append overwrites are those of the old terminator header and of the
\* table's free_bottom and end_of_list fields; a failed call overwrites none.
C14_AppendOnly ==
    (Appended /\ hob_table # NULL) =>
        /\ \A k \in 1 .. Len(EarlierRecords) : RecordUntouched(EarlierRecords[k])
        /\ AppendOk => Overwritten \subseteq (OldTerminator \cup TableCursorFields)
        /\ AppendFailed => Overwritten = {}

\* a third record was appended: the two earlier ones are intact and the
\* old terminator header was overwritten
C14_Witness ==
    /\ AppendOk
    /\ Len(created) = 3
    /\ Overwritten \cap OldTerminator # {}
    /\ Overwritten \cap TableCursorFields # {}

(***************************************************************************)
(* C15.  End-to-end sequence: after create_hob_list over a 4096-byte       *)
(* region with a 4096-byte free sub-region at the same non-zero base,      *)
(* create_resource_descriptor_hob succeeds and advances free_bottom by the *)
(* resource-descriptor record size rounded up to 8; then create_guid_hob   *)
(* with data_length = 10 succeeds and returns a payload pointer with at    *)
(* least 10 bytes inside the new record; then an append requesting more    *)
(* bytes than free_top - free_bottom fails with OutOfMemory and leaves the *)
(* table and both earlier records unchanged.                               *)
(***************************************************************************)
\* the table of create_hob_list(base, 4096, base, 4096)
ScenarioTable ==
    /\ hob_table # NULL
    /\ memory_bottom = hob_table
    /\ memory_top = hob_table + 4096
    /\ free_top = hob_table + 4096

C15_EndToEnd ==
    /\ (/\ last.op = "create_hob_list"
        /\ last.args[1] # 0
        /\ last.args = <<last.args[1], 4096, last.args[1], 4096>>)
       => (last.hob = last.args[1] /\ ScenarioTable /\ free_bottom <= free_top)
    /\ (/\ ScenarioTable
        /\ last.op = "create_resource_descriptor_hob"
        /\ Len(EarlierRecords) = 0)
       => /\ last.ret = "TEE_SUCCESS"
          /\ free_bottom = pre_free_bottom + RoundedUp(SizeofResourceDescriptor)
    /\ (/\ ScenarioTable
        /\ last.op = "create_guid_hob"
        /\ ~last.args[1] /\ last.args[4] /\ last.args[3] = 10
        /\ Len(EarlierRecords) = 1
        /\ EarlierRecords[1].hob_type = EFI_HOB_TYPE_RESOURCE_DESCRIPTOR)
       => /\ last.ret = "TEE_SUCCESS"
          /\ data_out > last.hob
          /\ data_out + 10 <= last.hob + hob_length_of(mem, last.hob)
          /\ data_out + 10 <= end_of_list
    /\ (/\ ScenarioTable
        /\ Appended
        /\ Len(EarlierRecords) = 2
        /\ EarlierRecords[1].hob_type = EFI_HOB_TYPE_RESOURCE_DESCRIPTOR
        /\ EarlierRecords[2].hob_type = EFI_HOB_TYPE_GUID_EXTENSION
        /\ EarlierRecords[2].hob_length = 40
        /\ last.n > pre_free_top - pre_free_bottom)
       => /\ last.ret = "TEE_ERROR_OUT_OF_MEMORY"
          /\ mem = pre.mem
          /\ created = EarlierRecords
          /\ RecordUntouched(created[1])
          /\ RecordUntouched(created[2])

\* the whole sequence ran: the resource descriptor and the GUID record of
\* 10 payload bytes are in the list and the third append was refused
C15_Witness ==
    /\ ScenarioTable
    /\ nops = 4
    /\ Len(created) = 2
    /\ created[1].hob_type = EFI_HOB_TYPE_RESOURCE_DESCRIPTOR
    /\ created[2].hob_type = EFI_HOB_TYPE_GUID_EXTENSION
    /\ created[2].hob_length = 40
    /\ AppendFailed
    /\ last.ret = "TEE_ERROR_OUT_OF_MEMORY"
    /\ last.n > free_top - free_bottom

(***************************************************************************)
(* C16.  Result classification of create_guid_hob: BadParameters if and    *)
(* only if the tag is null, or the output pointer is null, or              *)
(* data_length + sizeof(GUID record header) overflows 16 bits, and this    *)
(* check comes before every append failure (a null table with a null tag   *)
(* yields BadParameters); otherwise OutOfMemory if and only if the table   *)
(* is null, or the length rounds to zero in 16 bits, or the rounded length *)
(* exceeds free_top - free_bottom (the unsigned difference, as in C12);    *)
(* otherwise success.                                                      *)
(***************************************************************************)
C16_GuidClassification ==
    last.op = "create_guid_hob" =>
        LET guid_null == last.args[1]
            data_length == last.args[3]
            data_null == ~last.args[4]
            bad == guid_null \/ data_null \/ data_length + SizeofGuidType >= 65536
            rounded == RoundedUp(data_length + SizeofGuidType)
            refused == rounded = 65536 \/ PrimitiveRejects(rounded)
        IN  /\ last.ret \in {"TEE_ERROR_BAD_PARAMETERS", "TEE_ERROR_OUT_OF_MEMORY", "TEE_SUCCESS"}
            /\ last.ret = "TEE_ERROR_BAD_PARAMETERS" <=> bad
            /\ ~bad => (last.ret = "TEE_ERROR_OUT_OF_MEMORY" <=> refused)
            /\ (~bad /\ ~refused) => last.ret = "TEE_SUCCESS"

\* a null tag was passed while there was no table
C16_Witness ==
    /\ last.op = "create_guid_hob"
    /\ last.args[1]
    /\ last.args[4]
    /\ pre.hob_table = NULL
    /\ last.ret = "TEE_ERROR_BAD_PARAMETERS"

\* the length rounded to zero on a table with room for a record
C16_WitnessRoundsToZero ==
    /\ last.op = "create_guid_hob"
    /\ ~last.args[1]
    /\ last.args[4]
    /\ last.args[3] = 65511
    /\ hob_table # NULL
    /\ free_top - free_bottom >= 65528
    /\ last.ret = "TEE_ERROR_OUT_OF_MEMORY"

(***************************************************************************)
(* C17.  On every successful create_guid_hob with data_length d the byte   *)
(* range [data, data + d) returned to the caller lies inside the new       *)
(* record: data + d <= new end_of_list, so filling d payload bytes never   *)
(* overwrites the new terminator, and data + d <= free_top.                *)
(***************************************************************************)
C17_PayloadInsideRecord ==
    (last.op = "create_guid_hob" /\ last.ret = "TEE_SUCCESS") =>
        /\ data_out >= last.hob + SizeofGuidType
        /\ data_out + last.args[3] <= end_of_list
        /\ data_out + last.args[3] <= free_top

\* the part of C17 that does not mention free_top
C17_PayloadBeforeTerminator ==
    (last.op = "create_guid_hob" /\ last.ret = "TEE_SUCCESS") =>
        /\ data_out >= last.hob + SizeofGuidType
        /\ data_out + last.args[3] <= end_of_list

(***************************************************************************)
(* C18.  Alignment invariant: if the free base passed to create_hob_list   *)
(* is a multiple of 8, then in every reachable state the table address,    *)
(* every record address, end_of_list and free_bottom are multiples of 8,   *)
(* and the length field of every header (table, appended records,          *)
(* terminator) is a multiple of 8.                                         *)
(***************************************************************************)
C18_Alignment ==
    (hob_table # NULL /\ hob_table % 8 = 0) =>
        /\ hob_length_of(mem, hob_table) % 8 = 0
        /\ end_of_list % 8 = 0
        /\ free_bottom % 8 = 0
        /\ hob_length_of(mem, end_of_list) % 8 = 0
        /\ \A k \in 1 .. Len(Walk) :
              /\ Walk[k] % 8 = 0
              /\ hob_length_of(mem, Walk[k]) % 8 = 0
        /\ \A k \in 1 .. Len(created) :
              /\ created[k].addr % 8 = 0
              /\ created[k].hob_length % 8 = 0

\* an aligned table holding a GUID record whose requested length, 34, is
\* not a multiple of 8, followed by another record
C18_Witness ==
    /\ hob_table # NULL
    /\ hob_table % 8 = 0
    /\ Len(created) = 2
    /\ created[1].hob_type = EFI_HOB_TYPE_GUID_EXTENSION
    /\ created[1].hob_length = 40
    /\ Len(Walk) = 3

\* with a free base that is not a multiple of 8 no address is aligned
C18_UnalignedBase ==
    /\ hob_table # NULL
    /\ hob_table % 8 # 0
    /\ Len(created) >= 1
    /\ end_of_list % 8 # 0

(***************************************************************************)
(* C19.  Exhaustion is permanent and the list is bounded: on a table with  *)
(* free_bottom <= free_top, once an append with rounded length L was       *)
(* rejected for insufficient space every later append with rounded length  *)
(* >= L is rejected too, the number of successful appends is at most       *)
(* (free_top - initial free_bottom) / 8, and so every unbounded stream of  *)
(* append requests eventually yields no further success.                   *)
(***************************************************************************)
\* lengths a producer can pass to _create_hob
RequestLengths == {SizeofFirmwareVolume, SizeofResourceDescriptor} \cup {ToUint16(d + SizeofGuidType) : d \in DataLengths}

InitialFreeBottom == hob_table + SizeofHandoffInfoTable + SizeofGenericHeader

C19_ExhaustionState ==
    (hob_table # NULL /\ InitialFreeBottom <= free_top) =>
        /\ free_bottom <= free_top
        /\ (AppendOk /\ rejected # 0) => hob_length_of(mem, last.hob) < rejected
        /\ rejected # 0 =>
              \A n \in RequestLengths :
                  RoundedUp(n) >= rejected =>
                      _create_hob(mem, hob_table, EFI_HOB_TYPE_FV, n).ret = NULL
        /\ Len(created) <= (free_top - InitialFreeBottom) \div 8

C19_Exhaustion ==
    /\ []C19_ExhaustionState
    /\ <>[][last'.ret # "TEE_SUCCESS"]_vars

\* the free region is used up by four records after a refusal of the
\* smallest record: every request is refused from here on
C19_Witness ==
    /\ hob_table # NULL
    /\ rejected = SizeofFirmwareVolume
    /\ Len(created) = 4
    /\ free_bottom <= free_top
    /\ free_top - free_bottom < SizeofFirmwareVolume
    /\ AppendFailed

====
